---- MODULE Spec2Model ----
(***************************************************************************)
(* Model of pyqsys: the Core connection engine (src/pyqsys/qsc_core.py)    *)
(* and the request/response call path BaseMethods._send                    *)
(* (src/pyqsys/qrc_methods.py).                                            *)
(*                                                                         *)
(* Threads: one lifecycle ("main") thread calling connect()/close(), the   *)
(* sock_handler worker, the keepalive workers (one is started per          *)
(* connect()), and the caller threads running _send.  The peer and the TCP *)
(* stream are the environment: socket reads and writes succeed or would    *)
(* block, and the peer sends well-formed frames.                           *)
(***************************************************************************)
EXTENDS Integers, Sequences, FiniteSets, TLC

\* ------------------------------------------------------------------ bounds
MaxConn   == 2      \* successful connect() calls explored
MaxId     == 2      \* request ids handed out by request()
MaxEvents == 1      \* unsolicited EngineStatus frames the peer sends
MaxWire   == 3      \* bytes in flight from the peer to the client
MaxStream == 4      \* length of the byte streams fed to frame extraction
MaxGap    == 31     \* saturation of the tick counter between two writes

\* ------------------------------------------------------- program constants
NOOP_PERIOD == 29   \* self.noop_timer = 29

Callers == {"c1", "c2"}

\* ----------------------------------------------------------- wire encoding
\* A byte is a natural number; NUL is the frame delimiter b'\00'.  A response
\* frame is two bytes, the id and the payload: a payload byte from ResultBase
\* on is a "result" member, one below is an "error" member holding a code.
NUL        == 0
MarkerByte == 3     \* stands for the substring b'EngineStatus'
IdBase     == 10
CodeBase   == 20
ResultBase == 60

\* Error codes the peer may put in an error envelope: the documented table
\* followed by codes absent from it.
DocumentedCodes == {-32700, -32600, -32601, -32602, -32603, -32604,
                    2, 3, 4, 5, 6, 7, 8, 9, 10}
CodeTable == << -32700, -32600, -32601, -32602, -32603, -32604,
                2, 3, 4, 5, 6, 7, 8, 9, 10, 999, 0, 1, 11 >>
AllCodes == {CodeTable[k] : k \in DOMAIN CodeTable}
FewCodes == {8, 999}

CodeIndex(code) == CHOOSE k \in DOMAIN CodeTable : CodeTable[k] = code

\* The result the peer computes for request id.
ResultOf(id) == 100 + id

\* Peer side serialisation of a response envelope (without the delimiter).
EncodeOk(id, result) == << IdBase + id, ResultBase + (result - 100) >>
EncodeError(id, code) == << IdBase + id, CodeBase + CodeIndex(code) >>
EncodeEvent == << MarkerByte >>

\* parse_json(response.decode('UTF8')): Ok(result, id) or Error(code, ..., id)
parse_json(frame) ==
    IF frame[2] >= ResultBase
    THEN [kind |-> "Ok", id |-> frame[1] - IdBase,
          result |-> 100 + (frame[2] - ResultBase), code |-> 0]
    ELSE [kind |-> "Error", id |-> frame[1] - IdBase,
          result |-> 0, code |-> CodeTable[frame[2] - CodeBase]]

\* -------------------------------------------------------- frame extraction
\* data.count(b'\00')
CountNul(s) == Cardinality({i \in DOMAIN s : s[i] = NUL})

\* data.split(b'\00'): CountNul(s) + 1 segments, the last one possibly empty
RECURSIVE SplitNul(_)
SplitNul(s) ==
    IF CountNul(s) = 0
    THEN << s >>
    ELSE LET i == CHOOSE j \in DOMAIN s :
                     s[j] = NUL /\ \A k \in 1..(j - 1) : s[k] # NUL
         IN  << SubSeq(s, 1, i - 1) >> \o SplitNul(SubSeq(s, i + 1, Len(s)))

ExtractFrames_DropsPartial(data, chunk) ==
    LET d == chunk
        null_term_count == CountNul(d)
    IN  IF null_term_count > 0
        THEN LET parts == SplitNul(d)
             IN  [frames |-> SubSeq(parts, 1, null_term_count),
                  data   |-> parts[null_term_count + 1]]
        ELSE [frames |-> << >>, data |-> d]

\* One read of sock_handler: append the chunk, split on NUL, every segment
\* before the last is a complete frame, the last is the new buffer.
ExtractFrames(data, chunk) ==
    LET d == data \o chunk
        null_term_count == CountNul(d)
    IN  IF null_term_count > 0
        THEN LET parts == SplitNul(d)
             IN  [frames |-> SubSeq(parts, 1, null_term_count),
                  data   |-> parts[null_term_count + 1]]
        ELSE [frames |-> << >>, data |-> d]

\* response.count(b'EngineStatus') > 0
IsEngineStatus(frame) == \E i \in DOMAIN frame : frame[i] = MarkerByte

\* ---------------------------------------------------------- error translator
NoneDict == [Error |-> "None", Code |-> 0]

_parse_error_Swapped(error_code) ==
    CASE error_code = -32700 -> [Error |-> "Parse error. Invalid JSON was received by the server.", Code |-> error_code]
      [] error_code = -32600 -> [Error |-> "Invalid request. The JSON sent is not a valid Request object.", Code |-> error_code]
      [] error_code = -32601 -> [Error |-> "Method not found.", Code |-> error_code]
      [] error_code = -32602 -> [Error |-> "Invalid params.", Code |-> error_code]
      [] error_code = -32603 -> [Error |-> "Server error.", Code |-> error_code]
      [] error_code = -32604 -> [Error |-> "Core is on Standby. This code is returned when a QRC command is received while the Core is not the active Core in a redundant Core configuration.", Code |-> error_code]
      [] error_code = 2 -> [Error |-> "Invalid Page Request ID", Code |-> error_code]
      [] error_code = 3 -> [Error |-> "Bad Page Request - could not create the requested Page Request", Code |-> error_code]
      [] error_code = 4 -> [Error |-> "Missing file", Code |-> error_code]
      [] error_code = 5 -> [Error |-> "Change Groups exhausted", Code |-> error_code]
      [] error_code = 6 -> [Error |-> "Unknown change group", Code |-> error_code]
      [] error_code = 7 -> [Error |-> "Unknown control", Code |-> error_code]
      [] error_code = 8 -> [Error |-> "Unknown component name", Code |-> error_code]
      [] error_code = 9 -> [Error |-> "Illegal mixer channel index", Code |-> error_code]
      [] error_code = 10 -> [Error |-> "Logon required", Code |-> error_code]
      [] OTHER -> NoneDict

\* Core._parse_error: a match statement without a default case, so a code
\* outside the table falls through and the function returns None.
_parse_error(error_code) ==
    CASE error_code = -32700 -> [Error |-> "Parse error. Invalid JSON was received by the server.", Code |-> error_code]
      [] error_code = -32600 -> [Error |-> "Invalid request. The JSON sent is not a valid Request object.", Code |-> error_code]
      [] error_code = -32601 -> [Error |-> "Method not found.", Code |-> error_code]
      [] error_code = -32602 -> [Error |-> "Invalid params.", Code |-> error_code]
      [] error_code = -32603 -> [Error |-> "Server error.", Code |-> error_code]
      [] error_code = -32604 -> [Error |-> "Core is on Standby. This code is returned when a QRC command is received while the Core is not the active Core in a redundant Core configuration.", Code |-> error_code]
      [] error_code = 2 -> [Error |-> "Invalid Page Request ID", Code |-> error_code]
      [] error_code = 3 -> [Error |-> "Bad Page Request - could not create the requested Page Request", Code |-> error_code]
      [] error_code = 4 -> [Error |-> "Missing file", Code |-> error_code]
      [] error_code = 5 -> [Error |-> "Change Groups exhausted", Code |-> error_code]
      [] error_code = 6 -> [Error |-> "Unknown change group", Code |-> error_code]
      [] error_code = 7 -> [Error |-> "Unknown component name", Code |-> error_code]
      [] error_code = 8 -> [Error |-> "Unknown control", Code |-> error_code]
      [] error_code = 9 -> [Error |-> "Illegal mixer channel index", Code |-> error_code]
      [] error_code = 10 -> [Error |-> "Logon required", Code |-> error_code]
      [] OTHER -> NoneDict

\* -------------------------------------------------------------------- state
VARIABLES
    sock,               \* self.sock: "None", "open" or "closed"
    sock_thread,        \* self.sock_thread: "None", "created", "alive", "dead"
    msg_queue,          \* self.msg_queue: ids of the queued request envelopes
    response_queue,     \* self.response_queue: parsed responses
    keepalive_event,    \* self.keepalive_event (the ping flag)
    response_is_ready,  \* self.response_is_ready
    stop_threads,       \* self.stop_threads (the shutdown flag)
    noop_timer,         \* self.noop_timer
    data,               \* sock_handler's local buffer
    io_pc,              \* sock_handler's position
    io_frames,          \* sock_handler: frames of the current read not yet handled
    ka,                 \* position of the keepalive worker started by the n-th connect()
    main_pc,            \* position of the thread calling connect()/close()
    main_ret,           \* outcome of its last connect()/close()
    nconn,              \* number of connections opened so far
    call,               \* per caller thread: position in _send and its outcome
    next_id,            \* the id request() hands out next
    wire,               \* bytes sent by the peer and not yet read
    owed,               \* ids of the requests the peer has not answered yet
    peer_open,          \* FALSE once the peer has closed its end
    n_events,           \* EngineStatus frames sent so far
    wlog,               \* history: ids of the requests written to the socket
    close_snap,         \* history: msg_queue when close() raised the shutdown flag
    hb,                 \* history: what raised the ping flag, request written since
    gap,                \* history: ticks since the last write to an idle peer, or -1
    burst,              \* history: ids of the two responses the last read delivered
    plog,               \* history: ids of the requests in the order they were queued
    f_input,            \* frame extraction harness: the whole byte stream
    f_rest,             \*   bytes not yet read
    f_data,             \*   the buffer
    f_frames,           \*   frames extracted so far
    f_cuts              \*   lengths of the reads made so far

coreVars  == << sock, sock_thread, msg_queue, response_queue, keepalive_event,
                response_is_ready, stop_threads, noop_timer >>
ioVars    == << data, io_pc, io_frames >>
mainVars  == << main_pc, main_ret, nconn >>
callVars  == << call, next_id >>
peerVars  == << wire, owed, peer_open, n_events >>
histVars  == << wlog, close_snap, hb, gap, burst, plog >>
frameVars == << f_input, f_rest, f_data, f_frames, f_cuts >>
vars == << coreVars, ioVars, ka, mainVars, callVars, peerVars, histVars, frameVars >>

NoResp   == [kind |-> "none", id |-> 0, result |-> 0, code |-> 0]
\* pc: position in _send; id: cmd["id"]; checked: what is_alive() found;
\* ret, result, dict: what _send returned or raised; resp_kind, resp_id, resp_code:
\* the response it popped.
\* prev: the outcome of the caller's previous call.
IdleCall == [pc |-> "idle", id |-> 0, checked |-> "none", ret |-> "none",
             result |-> 0, dict |-> NoneDict,
             resp_kind |-> "none", resp_id |-> 0, resp_code |-> 0,
             prev |-> "none"]

Range(s) == {s[i] : i \in DOMAIN s}

\* Core.__init__
Init ==
    /\ sock = "None"
    /\ sock_thread = "None"
    /\ msg_queue = << >>
    /\ response_queue = << >>
    /\ keepalive_event = FALSE
    /\ response_is_ready = FALSE
    /\ stop_threads = FALSE
    /\ noop_timer = NOOP_PERIOD
    /\ data = << >>
    /\ io_pc = "recv"
    /\ io_frames = << >>
    /\ ka = [k \in 1..MaxConn |-> "None"]
    /\ main_pc = "idle"
    /\ main_ret = "none"
    /\ nconn = 0
    /\ call = [c \in Callers |-> IdleCall]
    /\ next_id = 1
    /\ wire = << >>
    /\ owed = << >>
    /\ peer_open = FALSE
    /\ n_events = 0
    /\ wlog = << >>
    /\ close_snap = {}
    /\ hb = [raised_by |-> "none", req_after |-> FALSE]
    /\ gap = -1
    /\ burst = << >>
    /\ plog = << >>
    /\ f_input = << >>
    /\ f_rest = << >>
    /\ f_data = << >>
    /\ f_frames = << >>
    /\ f_cuts = << >>

\* sock_thread.is_alive()
is_alive == sock_thread = "alive"

\* ------------------------------------------------------ connect() / close()
connect_AlwaysOpens ==
    /\ main_pc = "idle"
    /\ nconn < MaxConn
    /\ sock' = "open"
    /\ sock_thread' = "created"
    /\ stop_threads' = FALSE
    /\ response_is_ready' = FALSE
    /\ keepalive_event' = FALSE
    /\ nconn' = nconn + 1
    /\ main_pc' = "start_sock"
    /\ main_ret' = "none"
    /\ wire' = << >>
    /\ owed' = << >>
    /\ peer_open' = TRUE
    /\ hb' = [hb EXCEPT !.raised_by = "none", !.req_after = FALSE]
    /\ gap' = -1
    /\ UNCHANGED << msg_queue, response_queue, noop_timer, ioVars, ka,
                    callVars, n_events, wlog, close_snap, burst, plog, frameVars >>

\* Core.connect up to the start of the workers: a new socket and new worker
\* objects unless the sock_handler worker is alive, else only an error is logged.
connect ==
    /\ main_pc = "idle"
    /\ IF sock_thread = "None" \/ ~is_alive
       THEN /\ nconn < MaxConn
            /\ sock' = "open"
            /\ sock_thread' = "created"
            /\ stop_threads' = FALSE
            /\ response_is_ready' = FALSE
            /\ keepalive_event' = FALSE
            /\ nconn' = nconn + 1
            /\ main_pc' = "start_sock"
            /\ main_ret' = "none"
            /\ wire' = << >>
            /\ owed' = << >>
            /\ peer_open' = TRUE
            /\ hb' = [hb EXCEPT !.raised_by = "none", !.req_after = FALSE]
            /\ gap' = -1
            /\ UNCHANGED << msg_queue, response_queue, noop_timer, ioVars, ka,
                            callVars, n_events, wlog, close_snap, burst, plog, frameVars >>
       ELSE /\ main_ret' = "AlreadyConnected"
            /\ UNCHANGED << coreVars, ioVars, ka, main_pc, nconn, callVars,
                            peerVars, histVars, frameVars >>

\* self.sock_thread.start(): sock_handler begins with an empty buffer
connect_start_sock ==
    /\ main_pc = "start_sock"
    /\ sock_thread' = "alive"
    /\ data' = << >>
    /\ io_pc' = "recv"
    /\ io_frames' = << >>
    /\ main_pc' = "start_keepalive"
    /\ UNCHANGED << sock, msg_queue, response_queue, keepalive_event,
                    response_is_ready, stop_threads, noop_timer, ka, main_ret,
                    nconn, callVars, peerVars, histVars, frameVars >>

\* self.keepalive_thread.start()
connect_start_keepalive ==
    /\ main_pc = "start_keepalive"
    /\ ka' = [ka EXCEPT ![nconn] = "test"]
    /\ main_pc' = "idle"
    /\ main_ret' = "Connected"
    /\ UNCHANGED << coreVars, ioVars, nconn, callVars, peerVars, histVars,
                    frameVars >>

\* Core.close, first statement: raise the shutdown flag.  join() on a worker
\* that was never created raises AttributeError.
close ==
    /\ main_pc = "idle"
    /\ stop_threads' = TRUE
    /\ close_snap' = Range(msg_queue)
    /\ gap' = -1
    /\ IF sock_thread = "None"
       THEN main_pc' = "idle" /\ main_ret' = "AttributeError"
       ELSE main_pc' = "join" /\ main_ret' = "none"
    /\ UNCHANGED << sock, sock_thread, msg_queue, response_queue,
                    keepalive_event, response_is_ready, noop_timer, ioVars, ka,
                    nconn, callVars, peerVars, wlog, hb, burst, plog, frameVars >>

close_join_NoJoin ==
    /\ main_pc = "join"
    /\ sock' = "closed"
    /\ peer_open' = FALSE
    /\ main_pc' = "idle"
    /\ main_ret' = "Closed"
    /\ UNCHANGED << sock_thread, msg_queue, response_queue, keepalive_event,
                    response_is_ready, stop_threads, noop_timer, ioVars, ka,
                    nconn, callVars, wire, owed, n_events, histVars, frameVars >>

\* self.sock_thread.join() returns once sock_handler has exited; self.sock.close()
close_join ==
    /\ main_pc = "join"
    /\ sock_thread = "dead"
    /\ sock' = "closed"
    /\ peer_open' = FALSE
    /\ main_pc' = "idle"
    /\ main_ret' = "Closed"
    /\ UNCHANGED << sock_thread, msg_queue, response_queue, keepalive_event,
                    response_is_ready, stop_threads, noop_timer, ioVars, ka,
                    nconn, callVars, wire, owed, n_events, histVars, frameVars >>

\* Core.no_op
no_op ==
    /\ sock_thread # "None"
    /\ is_alive /\ ~keepalive_event
    /\ keepalive_event' = TRUE
    /\ noop_timer' = NOOP_PERIOD
    /\ hb' = [hb EXCEPT !.raised_by = "no_op", !.req_after = FALSE]
    /\ UNCHANGED << sock, sock_thread, msg_queue, response_queue,
                    response_is_ready, stop_threads, ioVars, ka, mainVars,
                    callVars, peerVars, wlog, close_snap, gap, burst, plog, frameVars >>

\* ------------------------------------------------------------- sock_handler
\* while not self.stop_threads.is_set() or not self.msg_queue.empty()
LoopCondition == ~stop_threads \/ msg_queue # << >>

\* self.sock.recv(4096) raises BlockingIOError: nothing to read on a live socket
WouldBlock == wire = << >> /\ peer_open

\* gap counts the keepalive ticks since the last write while the connection
\* is live and the peer has been idle; -1 when there is no such write.
Tick(g) == IF g >= 0 /\ g < MaxGap THEN g + 1 ELSE g
Written(g) == 0
Void == -1

\* The ids of the responses in the frames of one read, when the read delivered
\* exactly two frames and both are responses.
ResponseIds(frames) ==
    IF Len(frames) = 2 /\ \A i \in 1..2 : Len(frames[i]) = 2
    THEN << parse_json(frames[1]).id, parse_json(frames[2]).id >>
    ELSE << >>

\* A successful read: any non-empty prefix of the pending bytes is returned,
\* appended to the buffer and split into frames.
SockRecv ==
    /\ is_alive /\ io_pc = "recv" /\ LoopCondition
    /\ wire # << >>
    /\ \E n \in 1..Len(wire) :
          LET r == ExtractFrames(data, SubSeq(wire, 1, n))
          IN  /\ wire' = SubSeq(wire, n + 1, Len(wire))
              /\ data' = r.data
              /\ io_frames' = r.frames
              /\ io_pc' = IF r.frames = << >> THEN "recv" ELSE "frames"
              /\ burst' = ResponseIds(r.frames)
    /\ UNCHANGED << coreVars, ka, mainVars, callVars, owed, peer_open,
                    n_events, wlog, close_snap, hb, gap, plog, frameVars >>

SockFrame_PutsEvents ==
    /\ is_alive /\ io_pc = "frames"
    /\ IF IsEngineStatus(Head(io_frames))
       THEN /\ response_queue' = Append(response_queue,
                   [kind |-> "Event", id |-> 0, result |-> 0, code |-> 0])
            /\ io_pc' = "set"
       ELSE /\ response_queue' = Append(response_queue, parse_json(Head(io_frames)))
            /\ io_pc' = "set"
    /\ io_frames' = Tail(io_frames)
    /\ UNCHANGED << sock, sock_thread, msg_queue, keepalive_event,
                    response_is_ready, stop_threads, noop_timer, data, ka,
                    mainVars, callVars, peerVars, histVars, frameVars >>

\* The body of the for loop for one complete frame: an EngineStatus frame is
\* logged, any other frame is parsed and put on response_queue.
SockFrame ==
    /\ is_alive /\ io_pc = "frames"
    /\ IF IsEngineStatus(Head(io_frames))
       THEN /\ io_pc' = IF Tail(io_frames) = << >> THEN "recv" ELSE "frames"
            /\ UNCHANGED response_queue
       ELSE /\ response_queue' = Append(response_queue, parse_json(Head(io_frames)))
            /\ io_pc' = "set"
    /\ io_frames' = Tail(io_frames)
    /\ UNCHANGED << sock, sock_thread, msg_queue, keepalive_event,
                    response_is_ready, stop_threads, noop_timer, data, ka,
                    mainVars, callVars, peerVars, histVars, frameVars >>

SockSet_NoSignal ==
    /\ is_alive /\ io_pc = "set"
    /\ io_pc' = IF io_frames = << >> THEN "recv" ELSE "frames"
    /\ UNCHANGED << coreVars, data, io_frames, ka, mainVars, callVars,
                    peerVars, histVars, frameVars >>

\* self.response_is_ready.set()
SockSet ==
    /\ is_alive /\ io_pc = "set"
    /\ response_is_ready' = TRUE
    /\ io_pc' = IF io_frames = << >> THEN "recv" ELSE "frames"
    /\ UNCHANGED << sock, sock_thread, msg_queue, response_queue,
                    keepalive_event, stop_threads, noop_timer, data, io_frames,
                    ka, mainVars, callVars, peerVars, histVars, frameVars >>

SockSendRequest_Lifo ==
    /\ is_alive /\ io_pc = "recv" /\ LoopCondition
    /\ WouldBlock
    /\ msg_queue # << >>
    /\ msg_queue' = SubSeq(msg_queue, 1, Len(msg_queue) - 1)
    /\ wlog' = Append(wlog, msg_queue[Len(msg_queue)])
    /\ owed' = Append(owed, msg_queue[Len(msg_queue)])
    /\ noop_timer' = NOOP_PERIOD
    /\ hb' = [hb EXCEPT !.req_after = keepalive_event]
    /\ gap' = Written(gap)
    /\ UNCHANGED << sock, sock_thread, response_queue, keepalive_event,
                    response_is_ready, stop_threads, ioVars, ka, mainVars,
                    callVars, wire, peer_open, n_events, close_snap, burst,
                    plog, frameVars >>

\* except BlockingIOError, first branch: pop one request, write it, reset
\* the countdown.
SockSendRequest ==
    /\ is_alive /\ io_pc = "recv" /\ LoopCondition
    /\ WouldBlock
    /\ msg_queue # << >>
    /\ msg_queue' = Tail(msg_queue)
    /\ wlog' = Append(wlog, Head(msg_queue))
    /\ owed' = Append(owed, Head(msg_queue))
    /\ noop_timer' = NOOP_PERIOD
    /\ hb' = [hb EXCEPT !.req_after = keepalive_event]
    /\ gap' = Written(gap)
    /\ UNCHANGED << sock, sock_thread, response_queue, keepalive_event,
                    response_is_ready, stop_threads, ioVars, ka, mainVars,
                    callVars, wire, peer_open, n_events, close_snap, burst,
                    plog, frameVars >>

SockHeartbeat_IgnoresQueue ==
    /\ is_alive /\ io_pc = "recv" /\ LoopCondition
    /\ WouldBlock
    /\ keepalive_event
    /\ keepalive_event' = FALSE
    /\ io_pc' = "hb_reset"
    /\ hb' = [raised_by |-> "none", req_after |-> FALSE]
    /\ gap' = Written(gap)
    /\ UNCHANGED << sock, sock_thread, msg_queue, response_queue,
                    response_is_ready, stop_threads, noop_timer, data,
                    io_frames, ka, mainVars, callVars, peerVars, wlog,
                    close_snap, burst, plog, frameVars >>

\* except BlockingIOError, second branch: write the NoOp frame and clear the
\* ping flag.
SockHeartbeat ==
    /\ is_alive /\ io_pc = "recv" /\ LoopCondition
    /\ WouldBlock
    /\ msg_queue = << >>
    /\ keepalive_event
    /\ keepalive_event' = FALSE
    /\ io_pc' = "hb_reset"
    /\ hb' = [raised_by |-> "none", req_after |-> FALSE]
    /\ gap' = Written(gap)
    /\ UNCHANGED << sock, sock_thread, msg_queue, response_queue,
                    response_is_ready, stop_threads, noop_timer, data,
                    io_frames, ka, mainVars, callVars, peerVars, wlog,
                    close_snap, burst, plog, frameVars >>

\* ... then, under the lock, self.noop_timer = 29
SockHeartbeatReset ==
    /\ is_alive /\ io_pc = "hb_reset"
    /\ noop_timer' = NOOP_PERIOD
    /\ io_pc' = "recv"
    /\ UNCHANGED << sock, sock_thread, msg_queue, response_queue,
                    keepalive_event, response_is_ready, stop_threads, data,
                    io_frames, ka, mainVars, callVars, peerVars, histVars,
                    frameVars >>

SockExit_IgnoresQueue ==
    /\ is_alive /\ io_pc = "recv"
    /\ stop_threads
    /\ sock_thread' = "dead"
    /\ UNCHANGED << sock, msg_queue, response_queue, keepalive_event,
                    response_is_ready, stop_threads, noop_timer, ioVars, ka,
                    mainVars, callVars, peerVars, histVars, frameVars >>

\* The while condition is false: sock_handler returns.
SockExit ==
    /\ is_alive /\ io_pc = "recv"
    /\ ~LoopCondition
    /\ sock_thread' = "dead"
    /\ UNCHANGED << sock, msg_queue, response_queue, keepalive_event,
                    response_is_ready, stop_threads, noop_timer, ioVars, ka,
                    mainVars, callVars, peerVars, histVars, frameVars >>

\* ---------------------------------------------------------------- keepalive
\* while not self.stop_threads.is_set() and self.sock_thread.is_alive()
KeepaliveTest(k) ==
    /\ ka[k] = "test"
    /\ ka' = [ka EXCEPT ![k] = IF ~stop_threads /\ is_alive THEN "body" ELSE "exited"]
    /\ UNCHANGED << coreVars, ioVars, mainVars, callVars, peerVars, histVars,
                    frameVars >>

KeepaliveTick_Unlocked(k) ==
    /\ ka[k] = "body"
    /\ IF noop_timer = 0
       THEN /\ keepalive_event' = TRUE
            /\ noop_timer' \in {NOOP_PERIOD, noop_timer - 1}
            /\ hb' = [hb EXCEPT !.raised_by = "monitor", !.req_after = FALSE]
       ELSE /\ noop_timer' = noop_timer - 1
            /\ UNCHANGED << keepalive_event, hb >>
    /\ gap' = Tick(gap)
    /\ ka' = [ka EXCEPT ![k] = "test"]
    /\ UNCHANGED << sock, sock_thread, msg_queue, response_queue,
                    response_is_ready, stop_threads, ioVars, mainVars,
                    callVars, peerVars, wlog, close_snap, burst, plog, frameVars >>

\* The loop body under noop_timer_lock, followed by time.sleep(1).
KeepaliveTick(k) ==
    /\ ka[k] = "body"
    /\ IF noop_timer = 0
       THEN /\ keepalive_event' = TRUE
            /\ noop_timer' = NOOP_PERIOD
            /\ hb' = [hb EXCEPT !.raised_by = "monitor", !.req_after = FALSE]
       ELSE /\ noop_timer' = noop_timer - 1
            /\ UNCHANGED << keepalive_event, hb >>
    /\ gap' = Tick(gap)
    /\ ka' = [ka EXCEPT ![k] = "test"]
    /\ UNCHANGED << sock, sock_thread, msg_queue, response_queue,
                    response_is_ready, stop_threads, ioVars, mainVars,
                    callVars, peerVars, wlog, close_snap, burst, plog, frameVars >>

\* ------------------------------------------------- parse_response and _send
\* Core.parse_response(cmd_id, parsed_json): what is returned or raised, and
\* whether response_is_ready is cleared.  "case Error(message)" binds the
\* first field of Error, the code, which is handed to _parse_error; that
\* branch neither looks at the id nor clears the event.
parse_response(cmd_id, parsed_json) ==
    IF parsed_json.kind = "Ok"
    THEN IF parsed_json.id = cmd_id
         THEN [ret |-> "result", result |-> parsed_json.result,
               dict |-> NoneDict, clear |-> TRUE]
         ELSE [ret |-> "LookupError", result |-> 0,
               dict |-> NoneDict, clear |-> FALSE]
    ELSE [ret |-> "dict", result |-> 0,
          dict |-> _parse_error(parsed_json.code), clear |-> FALSE]

\* _send: build the request (request() takes the next id), then test
\* sock_thread.is_alive().  With sock_thread still None the attribute access
\* raises AttributeError; with a dead worker a message is printed and None
\* is returned.
CallStart(c) ==
    /\ call[c].pc = "idle"
    /\ next_id <= MaxId
    /\ next_id' = next_id + 1
    /\ call' = [call EXCEPT ![c] =
          LET new == [IdleCall EXCEPT !.id = next_id, !.prev = call[c].ret]
          IN  IF sock_thread = "None"
              THEN [new EXCEPT !.checked = "None", !.ret = "AttributeError"]
              ELSE IF ~is_alive
              THEN [new EXCEPT !.checked = "dead", !.ret = "NotConnected"]
              ELSE [new EXCEPT !.checked = "alive", !.pc = "put"]]
    /\ UNCHANGED << coreVars, ioVars, ka, mainVars, peerVars, histVars,
                    frameVars >>

\* self.core.msg_queue.put(cmd)
CallPut(c) ==
    /\ call[c].pc = "put"
    /\ msg_queue' = Append(msg_queue, call[c].id)
    /\ call' = [call EXCEPT ![c].pc = "wait"]
    /\ plog' = Append(plog, call[c].id)
    /\ UNCHANGED << sock, sock_thread, response_queue, keepalive_event,
                    response_is_ready, stop_threads, noop_timer, ioVars, ka,
                    mainVars, next_id, peerVars, wlog, close_snap, hb, gap,
                    burst, frameVars >>

\* self.core.response_is_ready.wait()
CallWait(c) ==
    /\ call[c].pc = "wait"
    /\ response_is_ready
    /\ call' = [call EXCEPT ![c].pc = "get"]
    /\ UNCHANGED << coreVars, ioVars, ka, mainVars, next_id, peerVars,
                    histVars, frameVars >>

\* self.core.parse_response(cmd["id"], self.core.response_queue.get())
CallGet(c) ==
    /\ call[c].pc = "get"
    /\ response_queue # << >>
    /\ LET parsed_json == Head(response_queue)
           r == parse_response(call[c].id, parsed_json)
       IN  /\ response_queue' = Tail(response_queue)
           /\ response_is_ready' = IF r.clear THEN FALSE ELSE response_is_ready
           /\ call' = [call EXCEPT ![c] =
                  [pc |-> "idle", id |-> call[c].id, checked |-> "alive",
                   ret |-> r.ret, result |-> r.result, dict |-> r.dict,
                   resp_kind |-> parsed_json.kind, resp_id |-> parsed_json.id,
                   resp_code |-> parsed_json.code, prev |-> call[c].prev]]
    /\ UNCHANGED << sock, sock_thread, msg_queue, keepalive_event,
                    stop_threads, noop_timer, ioVars, ka, mainVars, next_id,
                    peerVars, histVars, frameVars >>

\* --------------------------------------------------------------------- peer
\* The peer answers the oldest unanswered request with one response frame
\* carrying the request's id: a result, or an error envelope with one of codes.
PeerRespond(codes) ==
    /\ peer_open
    /\ owed # << >>
    /\ Len(wire) + 3 <= MaxWire
    /\ \E frame \in {EncodeOk(Head(owed), ResultOf(Head(owed)))}
                    \cup {EncodeError(Head(owed), code) : code \in codes} :
          wire' = wire \o frame \o << NUL >>
    /\ owed' = Tail(owed)
    /\ gap' = Void
    /\ UNCHANGED << coreVars, ioVars, ka, mainVars, callVars, peer_open,
                    n_events, wlog, close_snap, hb, burst, plog, frameVars >>

\* The peer sends two result frames back to back: the answer to the oldest
\* unanswered request and a result frame carrying another id, in either order.
PeerRespondTwo ==
    /\ peer_open
    /\ owed # << >>
    /\ wire = << >>
    /\ \E other \in (1..(MaxId + 1)) \ {Head(owed)} :
          LET mine   == EncodeOk(Head(owed), ResultOf(Head(owed))) \o << NUL >>
              theirs == EncodeOk(other, ResultOf(other)) \o << NUL >>
          IN  wire' \in {mine \o theirs, theirs \o mine}
    /\ owed' = Tail(owed)
    /\ gap' = Void
    /\ UNCHANGED << coreVars, ioVars, ka, mainVars, callVars, peer_open,
                    n_events, wlog, close_snap, hb, burst, plog, frameVars >>

\* The peer sends an unsolicited EngineStatus frame.
PeerEvent ==
    /\ peer_open
    /\ n_events < MaxEvents
    /\ Len(wire) + 2 <= MaxWire
    /\ wire' = wire \o EncodeEvent \o << NUL >>
    /\ n_events' = n_events + 1
    /\ gap' = Void
    /\ UNCHANGED << coreVars, ioVars, ka, mainVars, callVars, owed, peer_open,
                    wlog, close_snap, hb, burst, plog, frameVars >>

\* The peer closes its end: once the pending bytes are read, recv returns b''.
PeerClose ==
    /\ peer_open
    /\ peer_open' = FALSE
    /\ gap' = Void
    /\ UNCHANGED << coreVars, ioVars, ka, mainVars, callVars, wire, owed,
                    n_events, wlog, close_snap, hb, burst, plog, frameVars >>

\* ------------------------------------------------------------ specifications
\* The threads: the actions of each.
sock_handler ==
    \/ SockRecv
    \/ SockFrame
    \/ SockSet
    \/ SockSendRequest
    \/ SockHeartbeat
    \/ SockHeartbeatReset

keepalive == \E k \in 1..MaxConn : KeepaliveTest(k) \/ KeepaliveTick(k)

_send(c) == CallStart(c) \/ CallPut(c) \/ CallWait(c) \/ CallGet(c)

\* Everything: any number of connect() and close() calls, both workers, all
\* caller threads, and a peer answering with any code.
Next ==
    \/ connect
    \/ connect_start_sock
    \/ connect_start_keepalive
    \/ close
    \/ close_join
    \/ no_op
    \/ sock_handler
    \/ SockExit
    \/ keepalive
    \/ \E c \in Callers : _send(c)
    \/ PeerRespond(AllCodes)
    \/ PeerEvent
    \/ PeerClose

Spec == Init /\ [][Next]_vars

\* Two caller threads on one connection that stays open; the ping flag is
\* raised by no_op.
NextCall ==
    \/ connect
    \/ connect_start_sock
    \/ connect_start_keepalive
    \/ no_op
    \/ sock_handler
    \/ \E c \in Callers : _send(c)
    \/ PeerRespond(FewCodes)
    \/ PeerEvent
    \/ PeerClose

SpecCall == Init /\ [][NextCall]_vars

\* connect() and close() in any order with two caller threads; the peer
\* answers with results or closes its end; the ping flag is raised by no_op.
NextClose ==
    \/ connect
    \/ connect_start_sock
    \/ connect_start_keepalive
    \/ close
    \/ close_join
    \/ no_op
    \/ sock_handler
    \/ SockExit
    \/ \E c \in Callers : _send(c)
    \/ PeerRespond({})
    \/ PeerClose

SpecClose == Init /\ [][NextClose]_vars

\* The whole life of connections, connect() and close() in any order, with
\* one caller thread; the ping flag is raised by no_op.
NextSession ==
    \/ connect
    \/ connect_start_sock
    \/ connect_start_keepalive
    \/ close
    \/ close_join
    \/ no_op
    \/ sock_handler
    \/ SockExit
    \/ _send("c1")
    \/ PeerRespond(FewCodes)
    \/ PeerEvent
    \/ PeerClose

SpecSession == Init /\ [][NextSession]_vars

\* One connection with its keepalive worker, the I/O loop, one caller and a
\* peer that answers with results: the application never calls no_op or close.
NextKeepalive ==
    \/ connect
    \/ connect_start_sock
    \/ connect_start_keepalive
    \/ SockRecv
    \/ SockFrame
    \/ SockSet
    \/ SockSendRequest
    \/ SockHeartbeat
    \/ SockHeartbeatReset
    \/ \E k \in 1..MaxConn : KeepaliveTest(k)
    \/ \E k \in 1..MaxConn : KeepaliveTick(k)
    \/ CallStart("c1")
    \/ CallPut("c1")
    \/ CallWait("c1")
    \/ CallGet("c1")
    \/ PeerRespond({})

SpecKeepalive == Init /\ [][NextKeepalive]_vars

\* connect() and close() in any order with the keepalive workers, the I/O loop
\* writing requests and heartbeats to a peer that stays silent, no_op, and a
\* caller thread that queues a request.
NextMonitor ==
    \/ connect
    \/ connect_start_sock
    \/ connect_start_keepalive
    \/ close
    \/ close_join
    \/ no_op
    \/ SockSendRequest
    \/ SockHeartbeat
    \/ SockHeartbeatReset
    \/ SockExit
    \/ \E k \in 1..MaxConn : KeepaliveTest(k)
    \/ \E k \in 1..MaxConn : KeepaliveTick(k)
    \/ CallStart("c1")
    \/ CallPut("c1")

SpecMonitor == Init /\ [][NextMonitor]_vars

\* One connection that stays open, with its keepalive worker, the I/O loop
\* writing requests and heartbeats to a silent peer, no_op, and a caller thread
\* that queues a request.
NextCountdown ==
    \/ connect
    \/ connect_start_sock
    \/ connect_start_keepalive
    \/ no_op
    \/ SockSendRequest
    \/ SockHeartbeat
    \/ SockHeartbeatReset
    \/ \E k \in 1..MaxConn : KeepaliveTest(k)
    \/ \E k \in 1..MaxConn : KeepaliveTick(k)
    \/ CallStart("c1")
    \/ CallPut("c1")

SpecCountdown == Init /\ [][NextCountdown]_vars

\* One caller on one connection, the peer answering with a result or with any
\* error code.
NextErr ==
    \/ connect
    \/ connect_start_sock
    \/ connect_start_keepalive
    \/ SockRecv
    \/ SockFrame
    \/ SockSet
    \/ SockSendRequest
    \/ CallStart("c1")
    \/ CallPut("c1")
    \/ CallWait("c1")
    \/ CallGet("c1")
    \/ PeerRespond(AllCodes)

SpecErr == Init /\ [][NextErr]_vars

\* One caller on one connection; the peer sends its answer together with a
\* second result frame.
NextPair ==
    \/ connect
    \/ connect_start_sock
    \/ connect_start_keepalive
    \/ SockRecv
    \/ SockFrame
    \/ SockSet
    \/ SockSendRequest
    \/ _send("c1")
    \/ PeerRespondTwo

SpecPair == Init /\ [][NextPair]_vars

\* ------------------------------------------------ frame extraction harness
FrameBytes == {NUL, IdBase + 1, ResultBase + 1}

RECURSIVE SeqsUpTo(_, _)
SeqsUpTo(S, n) ==
    IF n = 0 THEN {<< >>}
    ELSE LET shorter == SeqsUpTo(S, n - 1)
         IN  shorter \cup {Append(q, b) : q \in {x \in shorter : Len(x) = n - 1}, b \in S}

\* Any byte stream of at most MaxStream bytes is about to arrive.
InitFrames ==
    /\ sock = "None"
    /\ sock_thread = "None"
    /\ msg_queue = << >>
    /\ response_queue = << >>
    /\ keepalive_event = FALSE
    /\ response_is_ready = FALSE
    /\ stop_threads = FALSE
    /\ noop_timer = NOOP_PERIOD
    /\ data = << >>
    /\ io_pc = "recv"
    /\ io_frames = << >>
    /\ ka = [k \in 1..MaxConn |-> "None"]
    /\ main_pc = "idle"
    /\ main_ret = "none"
    /\ nconn = 0
    /\ call = [c \in Callers |-> IdleCall]
    /\ next_id = 1
    /\ wire = << >>
    /\ owed = << >>
    /\ peer_open = FALSE
    /\ n_events = 0
    /\ wlog = << >>
    /\ close_snap = {}
    /\ hb = [raised_by |-> "none", req_after |-> FALSE]
    /\ gap = -1
    /\ burst = << >>
    /\ plog = << >>
    /\ f_input \in SeqsUpTo(FrameBytes, MaxStream)
    /\ f_rest = f_input
    /\ f_data = << >>
    /\ f_frames = << >>
    /\ f_cuts = << >>

\* One read of any non-empty prefix of the remaining stream, handled as
\* sock_handler handles it.
FeedRead ==
    /\ f_rest # << >>
    /\ \E n \in 1..Len(f_rest) :
          LET r == ExtractFrames(f_data, SubSeq(f_rest, 1, n))
          IN  /\ f_rest' = SubSeq(f_rest, n + 1, Len(f_rest))
              /\ f_data' = r.data
              /\ f_frames' = f_frames \o r.frames
              /\ f_cuts' = Append(f_cuts, n)
    /\ UNCHANGED << f_input, coreVars, ioVars, ka, mainVars, callVars,
                    peerVars, histVars >>

SpecFrames == InitFrames /\ [][FeedRead]_vars

\* The frames of a stream and the bytes after its last delimiter, by a scan
\* from the left.
RECURSIVE Scan(_, _, _)
Scan(stream, frames, partial) ==
    IF stream = << >>
    THEN [frames |-> frames, data |-> partial]
    ELSE IF Head(stream) = NUL
         THEN Scan(Tail(stream), Append(frames, partial), << >>)
         ELSE Scan(Tail(stream), frames, Append(partial, Head(stream)))

Consumed == SubSeq(f_input, 1, Len(f_input) - Len(f_rest))

\* C1: however the stream is split into reads, the frames extracted so far are
\* exactly the frames of the bytes read so far, and the buffer holds exactly
\* the bytes after their last delimiter.
C1_ChunkingIndependent ==
    /\ f_frames = Scan(Consumed, << >>, << >>).frames
    /\ f_data = Scan(Consumed, << >>, << >>).data

RECURSIVE SumSeq(_)
SumSeq(q) == IF q = << >> THEN 0 ELSE Head(q) + SumSeq(Tail(q))

\* A stream read in several pieces, one read ending directly before a
\* delimiter and one directly after it, with a frame extracted and a partial
\* frame left in the buffer.
C1_Witness ==
    /\ f_rest = << >>
    /\ Len(f_cuts) >= 3
    /\ Len(f_frames) >= 1
    /\ f_frames[1] # << >>
    /\ f_data # << >>
    /\ \E i \in 1..(Len(f_cuts) - 1) :
          LET p == SumSeq(SubSeq(f_cuts, 1, i))
          IN  /\ f_input[p + 1] = NUL
              /\ f_cuts[i + 1] = 1

\* ------------------------------------------------------------------ liveness
\* A live connection, one caller issuing calls one after another, and a peer
\* that answers every written request once, with the request's id, and sends
\* a bounded number of EngineStatus frames.  The ping flag, the only thing
\* through which the keepalive worker acts on sock_handler, is raised by no_op.
NextLive ==
    \/ connect
    \/ connect_start_sock
    \/ connect_start_keepalive
    \/ no_op
    \/ sock_handler
    \/ _send("c1")
    \/ PeerRespond(FewCodes)
    \/ PeerEvent

\* Every started thread keeps being scheduled and the peer keeps answering.
SpecLive ==
    /\ Init
    /\ [][NextLive]_vars
    /\ WF_vars(connect_start_sock \/ connect_start_keepalive)
    /\ WF_vars(sock_handler)
    /\ WF_vars(_send("c1"))
    /\ WF_vars(PeerRespond(FewCodes))

Returned(c, i) ==
    /\ call[c].id = i
    /\ call[c].pc = "idle"
    /\ call[c].resp_id = i
    /\ \/ call[c].ret = "result" /\ call[c].result = ResultOf(i)
       \/ call[c].ret = "dict" /\ call[c].dict = _parse_error(call[c].resp_code)

\* C2: every call that has enqueued its request eventually returns the result
\* or the translated error of the response carrying its own id.
C2_CallReturns ==
    \A i \in 1..MaxId :
        (call["c1"].id = i /\ call["c1"].pc # "idle") ~> Returned("c1", i)

\* The second call returned its own result after the first call was answered
\* by an error envelope.
C2_Witness ==
    /\ Returned("c1", 2)
    /\ call["c1"].ret = "result"
    /\ call["c1"].prev = "dict"

\* -------------------------------------------------------------- correlation
Done(c) == call[c].pc = "idle" /\ call[c].ret # "none"

\* C3: a call that popped a response with another id fails with the
\* correlation error (LookupError), for result and error envelopes alike.
C3_MismatchRaises ==
    \A c \in Callers :
        (Done(c) /\ call[c].resp_kind # "none" /\ call[c].resp_id # call[c].id)
            => call[c].ret = "LookupError"

Outstanding == {c \in Callers : call[c].pc \in {"wait", "get"}}

\* C4: at most one request is outstanding at a time, and a caller that got a
\* response got the one carrying its own id.
C4_OneOutstanding ==
    /\ Cardinality(Outstanding) <= 1
    /\ \A c \in Callers :
          (Done(c) /\ call[c].resp_kind # "none") => call[c].resp_id = call[c].id

\* --------------------------------------------------------------------- close
\* C5: in the step in which close() closes the open socket, every request
\* that was queued when this close() raised the shutdown flag has been written.
C5_CloseDrains ==
    [][(close_join /\ sock = "open") => close_snap \subseteq Range(wlog)]_vars

\* close() closed the socket of the first connection; two requests were queued
\* when it raised the flag and both were written after that.
C5_Witness ==
    /\ main_ret = "Closed"
    /\ sock = "closed"
    /\ nconn = 1
    /\ Cardinality(close_snap) = 2
    /\ close_snap \subseteq Range(wlog)

\* ------------------------------------------------------------- not connected
\* C6: a call made while the I/O loop is not running reports "not connected",
\* has enqueued nothing and is not blocked.
C6_NotConnected ==
    \A c \in Callers :
        call[c].checked \in {"None", "dead"}
            => /\ call[c].ret = "NotConnected"
               /\ call[c].pc = "idle"
               /\ call[c].id \notin Range(msg_queue) \cup Range(wlog)

\* ------------------------------------------------------------------- connect
\* C7: connect() while the sock_handler worker is alive reports the error
\* and changes nothing of the connection.
C7_ConnectWhileLive ==
    [][(connect /\ is_alive)
          => /\ main_ret' = "AlreadyConnected"
             /\ UNCHANGED << sock, sock_thread, ka, msg_queue, response_queue,
                             stop_threads, response_is_ready, keepalive_event,
                             noop_timer, ioVars, peerVars >>]_vars

\* connect() was refused on a live connection.
C7_Witness ==
    /\ main_ret = "AlreadyConnected"
    /\ is_alive
    /\ sock = "open"
    /\ ka[nconn] = "test"

\* ----------------------------------------------------------------- heartbeat
\* C8: a heartbeat is written only when the countdown reached zero and no
\* request was written since the ping flag was raised.
C8_HeartbeatOnlyWhenIdle ==
    [][SockHeartbeat => (hb.raised_by = "monitor" /\ ~hb.req_after)]_vars

\* C9: with an idle peer, at most NOOP_PERIOD ticks elapse between two
\* consecutive writes.
C9_WriteEveryPeriod ==
    [][((SockHeartbeat \/ SockSendRequest) /\ gap >= 0) => gap <= NOOP_PERIOD]_vars

\* ---------------------------------------------------------- error translator
\* C10: every documented code is translated to the record carrying that code
\* and its own message (8 is "Unknown control"), and a call answered by an
\* error envelope with a documented code returns that record.
C10_DocumentedCodes ==
    /\ \A code \in DocumentedCodes :
          /\ _parse_error(code).Code = code
          /\ _parse_error(code).Error # "None"
          /\ \A other \in DocumentedCodes \ {code} :
                _parse_error(other).Error # _parse_error(code).Error
    /\ _parse_error(8).Error = "Unknown control"
    /\ \A c \in Callers :
          (Done(c) /\ call[c].resp_kind = "Error"
                   /\ call[c].resp_code \in DocumentedCodes)
              => /\ call[c].ret = "dict"
                 /\ call[c].dict.Code = call[c].resp_code
                 /\ call[c].dict.Error # "None"
                 /\ (call[c].resp_code = 8 => call[c].dict.Error = "Unknown control")

\* The peer answered with error code 8 and the call returned its record.
C10_Witness ==
    /\ Done("c1")
    /\ call["c1"].resp_kind = "Error"
    /\ call["c1"].resp_code = 8
    /\ call["c1"].resp_id = call["c1"].id
    /\ call["c1"].dict = [Error |-> "Unknown control", Code |-> 8]

\* C11: a call answered by an error envelope whose code is absent from the
\* documented table returns a record carrying that code, never an absent value.
C11_UndocumentedCodes ==
    \A c \in Callers :
        (Done(c) /\ call[c].resp_kind = "Error"
                 /\ call[c].resp_code \notin DocumentedCodes)
            => /\ call[c].ret = "dict"
               /\ call[c].dict # NoneDict
               /\ call[c].dict.Code = call[c].resp_code

\* ------------------------------------------------------ two frames in a read
\* C12: when one read delivered two response frames and the id of the only
\* outstanding call is the id of one of them, the call completes with the
\* response carrying its id, whichever of the two frames came first.
C12_TwoFramesOneRead ==
    (/\ Done("c1")
     /\ call["c1"].resp_kind # "none"
     /\ burst # << >>
     /\ call["c1"].id \in Range(burst))
        => /\ call["c1"].ret = "result"
           /\ call["c1"].resp_id = call["c1"].id
           /\ call["c1"].result = ResultOf(call["c1"].id)

\* ------------------------------------------------------------ closed handle
\* A step in which sock_handler reads from or writes to the socket.
SockUse == SockRecv \/ SockSendRequest \/ SockHeartbeat

\* C13: sock_handler reads and writes only an open socket, close() closes the
\* socket only when sock_handler has exited, and a caller's steps leave the
\* socket and the byte streams alone.
C13_NoUseAfterClose ==
    [][/\ SockUse => sock = "open"
       /\ (sock = "open" /\ sock' = "closed") => sock_thread = "dead"
       /\ (\E c \in Callers : _send(c)) => UNCHANGED << sock, wire, wlog >>]_vars

\* The second connection was used for a request and has been closed.
C13_Witness ==
    /\ main_ret = "Closed"
    /\ sock = "closed"
    /\ sock_thread = "dead"
    /\ nconn = 2
    /\ Len(wlog) = 2

\* --------------------------------------------------------------- termination
\* The life of connections under fair scheduling: every started worker, the
\* thread inside close() and the caller keep being scheduled.
SpecShutdown ==
    /\ Init
    /\ [][NextSession]_vars
    /\ WF_vars(connect_start_sock \/ connect_start_keepalive)
    /\ WF_vars(sock_handler \/ SockExit)
    /\ WF_vars(close_join)
    /\ WF_vars(_send("c1"))

\* C14: once close() has raised the shutdown flag and waits for sock_handler,
\* sock_handler eventually exits and close() returns with the socket closed.
C14_CloseTerminates ==
    (main_pc = "join") ~> (main_ret = "Closed" /\ sock = "closed")

\* ----------------------------------------------------------------- ordering
\* C15: the requests written so far are, in the same order, the first of the
\* requests queued so far, the rest is still in the queue, and no request
\* was written twice.
C15_FifoWrites ==
    /\ plog = wlog \o msg_queue
    /\ \A i, j \in DOMAIN wlog : wlog[i] = wlog[j] => i = j

\* Two threads queued their requests in the order opposite to their ids and
\* both requests were written.
C15_Witness ==
    /\ plog = << 2, 1 >>
    /\ wlog = << 2, 1 >>

\* ------------------------------------------------------------------- writes
\* A step that writes a request frame, and one that writes the NoOp frame.
RequestWritten == wlog' # wlog
HeartbeatWritten == io_pc = "recv" /\ io_pc' = "hb_reset"

\* C16: a frame is written only when the read would block, one frame at a
\* time; the NoOp frame is written only with an empty queue and the ping flag
\* raised, and writing it clears the flag.
C16_WriteOnWouldBlock ==
    [][/\ (RequestWritten \/ HeartbeatWritten) => WouldBlock
       /\ ~(RequestWritten /\ HeartbeatWritten)
       /\ RequestWritten => Len(wlog') = Len(wlog) + 1
       /\ HeartbeatWritten => /\ msg_queue = << >>
                              /\ keepalive_event
                              /\ ~keepalive_event']_vars

\* The NoOp frame has just been written, after a request, with nothing queued.
C16_Witness ==
    /\ io_pc = "hb_reset"
    /\ ~keepalive_event
    /\ msg_queue = << >>
    /\ Len(wlog) >= 1

\* -------------------------------------------------------------- event frames
\* A step that takes a complete frame of the current read, and what it does
\* with the frame.
FrameHandled == io_pc = "frames" /\ io_frames' # io_frames
FrameRouted ==
    /\ io_frames' = Tail(io_frames)
    /\ IF IsEngineStatus(Head(io_frames))
       THEN /\ UNCHANGED << response_queue, response_is_ready >>
            /\ io_pc' # "set"
       ELSE /\ response_queue' = Append(response_queue, parse_json(Head(io_frames)))
            /\ io_pc' = "set"

\* C17: handling an EngineStatus frame leaves response_queue and
\* response_is_ready as they are; any other complete frame, taken in arrival
\* order, is parsed and appended to response_queue, and response_is_ready is
\* set before the next frame is handled; no caller ever pops an event.
C17_EventsNotCorrelated ==
    /\ [](\A c \in Callers : call[c].resp_kind \in {"none", "Ok", "Error"})
    /\ [](\A i \in DOMAIN response_queue :
              response_queue[i].kind \in {"Ok", "Error"})
    /\ [][FrameHandled => FrameRouted]_vars
    /\ [][(io_pc = "set" /\ io_pc' # "set") => response_is_ready']_vars

\* On the first connection an EngineStatus frame has arrived and been handled
\* while a call waits: nothing was pushed and the signal is not raised.
C17_Witness ==
    /\ nconn = 1
    /\ is_alive
    /\ n_events = 1
    /\ wire = << >>
    /\ data = << >>
    /\ io_pc = "recv"
    /\ owed # << >>
    /\ call["c1"].pc = "wait"
    /\ response_queue = << >>
    /\ ~response_is_ready

\* ------------------------------------------------------------------ countdown
\* C18: the countdown stays within 0..NOOP_PERIOD; a step that changes it
\* either resets it to NOOP_PERIOD or decrements it by one from a non-zero
\* value; a tick decrements a non-zero countdown and at zero raises the ping
\* flag and resets it; writing a request and completing a heartbeat reset it.
C18_CountdownRange ==
    /\ [](noop_timer \in 0..NOOP_PERIOD)
    /\ [][noop_timer' # noop_timer
             => \/ noop_timer' = NOOP_PERIOD
                \/ noop_timer > 0 /\ noop_timer' = noop_timer - 1]_vars
    /\ [][\A k \in 1..MaxConn :
             KeepaliveTick(k)
                => IF noop_timer = 0
                   THEN keepalive_event' /\ noop_timer' = NOOP_PERIOD
                   ELSE noop_timer' = noop_timer - 1
                        /\ keepalive_event' = keepalive_event]_vars
    /\ [][(RequestWritten \/ (io_pc = "hb_reset" /\ io_pc' = "recv"))
             => noop_timer' = NOOP_PERIOD]_vars

\* The countdown ran down to zero after a request was written, the next tick
\* raised the ping flag and reset the countdown.
C18_Witness ==
    /\ wlog # << >>
    /\ keepalive_event
    /\ hb.raised_by = "monitor"
    /\ noop_timer = NOOP_PERIOD
    /\ gap = NOOP_PERIOD + 1

\* C19: when connect() returns after starting the workers the countdown is
\* NOOP_PERIOD, for the first connection and for every later one; and no
\* tick changes the countdown while the shutdown flag is raised.
C19_ResetOnConnect ==
    /\ [][connect_start_keepalive => noop_timer' = NOOP_PERIOD]_vars
    /\ [][stop_threads => noop_timer' >= noop_timer]_vars

\* C20: once a later connect() has started its keepalive worker, a worker
\* started by an earlier connect() that evaluates its loop condition exits
\* and does not tick again.
C20_OneMonitor ==
    [][\A k \in 1..MaxConn :
          (KeepaliveTest(k) /\ \E j \in (k + 1)..MaxConn : ka[j] # "None")
             => ka'[k] = "exited"]_vars

\* ------------------------------------------------------------ response-ready
\* C21: with no call in flight and response_queue empty, response_is_ready
\* is clear.
C21_ReadyClearWhenIdle ==
    ((\A c \in Callers : call[c].pc = "idle") /\ response_queue = << >>)
        => ~response_is_ready

\* ------------------------------------------------------------- reconnection
\* C22: when a connect() that follows a close() starts its workers, msg_queue
\* and response_queue are both empty.
C22_NothingCarriedOver ==
    [][(connect_start_sock /\ nconn >= 2)
          => (msg_queue = << >> /\ response_queue = << >>)]_vars
====
